---- MODULE Spec2Model ----
(***************************************************************************)
(* Model of copycat: the POST /submit, GET /:hash and GET /download        *)
(* handlers (main.go), the Uploads table (SubmitUpload, GetUpload,         *)
(* isValidHex) and the S3 wrapper (NewFileObject, UploadObject,            *)
(* DownloadLargeObject).                                                   *)
(*                                                                         *)
(* Strings and byte slices are sequences of code points.  sha1.Sum is a    *)
(* fixed function whose values the model does not compute: the variable    *)
(* sha1 holds the part of it seen so far, and a digest is chosen the       *)
(* first time an input is hashed and is the same ever after.               *)
(***************************************************************************)
EXTENDS Integers, Sequences, FiniteSets, TLC

\* ---------------------------------------------------------------- bounds
MaxReq == 2
MaxTime == 2
MaxUploads == 2
TicksPerSecond == 2

\* ------------------------------------------------------ program constants
MinHashLen == 10
MaxHashLen == 40
ShortLen == 10
StatusOK == 200
StatusBadRequest == 400
StatusConflict == 409
StatusInternalServerError == 500

\* ------------------------------------------------------- string helpers
Rep(c, n) == [i \in 1..n |-> c]

Slash == <<47>>

RECURSIVE Join(_)
\* strings.Join(elems, "")
Join(elems) ==
  IF elems = <<>> THEN <<>> ELSE Head(elems) \o Join(Tail(elems))

\* unicode.IsSpace for the Latin-1 range
IsSpace(c) == c \in {9, 10, 11, 12, 13, 32, 133, 160}

RECURSIVE TrimLeft(_)
TrimLeft(s) ==
  IF s # <<>> /\ IsSpace(Head(s)) THEN TrimLeft(Tail(s)) ELSE s

RECURSIVE TrimRight(_)
TrimRight(s) ==
  IF s # <<>> /\ IsSpace(s[Len(s)]) THEN TrimRight(SubSeq(s, 1, Len(s) - 1)) ELSE s

\* strings.TrimSpace
TrimSpace(s) == TrimRight(TrimLeft(s))

\* strings.ToLower on ASCII
ToLower(s) == [i \in 1..Len(s) |-> IF s[i] >= 65 /\ s[i] <= 90 THEN s[i] + 32 ELSE s[i]]

RECURSIVE SplitFrom(_, _, _)
\* strings.Split(s, "/"): cur is the part being read
SplitFrom(s, cur, acc) ==
  IF s = <<>> THEN Append(acc, cur)
  ELSE IF Head(s) = 47 THEN SplitFrom(Tail(s), <<>>, Append(acc, cur))
  ELSE SplitFrom(Tail(s), Append(cur, Head(s)), acc)

Split(s) == SplitFrom(s, <<>>, <<>>)

HasPrefix(s, p) == Len(p) <= Len(s) /\ SubSeq(s, 1, Len(p)) = p

\* hash[:10]
Short(h) == SubSeq(h, 1, ShortLen)

\* ------------------------------------------------------------- digests
\* fmt.Sprintf("%x", sha1.Sum(b)) is 40 lowercase hex characters.  Three
\* values stand for the 2^160: D1 and D2 agree on their first 10
\* characters, D3 does not.
D1 == Rep(97, 10) \o Rep(48, 30)
D2 == Rep(97, 10) \o Rep(49, 30)
D3 == Rep(98, 10) \o Rep(48, 30)
Digests == {D1, D2, D3}

\* ---------------------------------------------------------- input sets
\* A multipart.FileHeader a client sends: Filename, Header (a map, here a
\* set of <<key, value>> with distinct keys), Size and the content.
FileA ==
  [Filename |-> <<97>>, Header |-> {<<<<84>>, <<116>>>>}, Size |-> 3,
   Contents |-> <<97, 98, 99>>]

\* A second file: a name with a leading space, two header keys and other
\* contents.
FileB ==
  [Filename |-> <<32, 98>>,
   Header |-> {<<<<84>>, <<116>>>>, <<<<68>>, <<100>>>>},
   Size |-> 2, Contents |-> <<120, 121>>]

\* A third file: the contents of a under another name.
FileC == [FileA EXCEPT !.Filename = <<99>>]

RECURSIVE SeqsUpTo(_, _)
SeqsUpTo(S, n) ==
  IF n = 0 THEN {<<>>}
  ELSE LET shorter == SeqsUpTo(S, n - 1)
       IN  shorter \cup {Append(q, x) : q \in {t \in shorter : Len(t) = n - 1}, x \in S}

\* Form bodies: empty, blank, a plain text, and a text that spells the
\* text followed by a filename/key pair.
Bodies == {<<>>, <<32>>, <<120>>, <<120>> \o <<97>> \o Slash \o D1}

\* ------------------------------------------------------------ FileObject
\* NewFileObject(fileHeader, modtime): the contents are read whole.
NewFileObject(fileHeader, modtime) ==
  [Filename |-> fileHeader.Filename, Header |-> fileHeader.Header,
   Size |-> fileHeader.Size, Modtime |-> modtime, Contents |-> fileHeader.Contents]

\* The orders in which a range over the Header map can visit its keys.
RECURSIVE Orders(_)
Orders(S) ==
  IF S = {} THEN {<<>>}
  ELSE UNION {{<<e>> \o rest : rest \in Orders(S \ {e})} : e \in S}

\* A length-prefixed string on the wire.
Str(s) == <<Len(s)>> \o s

RECURSIVE EncodeEntries(_)
EncodeEntries(order) ==
  IF order = <<>> THEN <<>>
  ELSE Str(Head(order)[1]) \o Str(Head(order)[2]) \o EncodeEntries(Tail(order))

\* An encoder that trims the Filename it writes.
GobEncodeTrimmed(object, order) ==
  Str(TrimSpace(object.Filename)) \o <<Len(order)>> \o EncodeEntries(order)
    \o <<object.Size, object.Modtime>> \o Str(object.Contents)

\* encoder.Encode(fileObject): every field of the struct, in declaration
\* order; the map's entries in the order the encoder's range visits them.
GobEncode(object, order) ==
  Str(object.Filename) \o <<Len(order)>> \o EncodeEntries(order)
    \o <<object.Size, object.Modtime>> \o Str(object.Contents)

\* new(FileObject)
ZeroFileObject ==
  [Filename |-> <<>>, Header |-> {}, Size |-> 0, Modtime |-> 0, Contents |-> <<>>]

\* Reading one length-prefixed string at position pos of data.
StrOk(data, pos) == pos <= Len(data) /\ pos + data[pos] <= Len(data)
StrAt(data, pos) == SubSeq(data, pos + 1, pos + data[pos])
StrEnd(data, pos) == pos + data[pos] + 1

RECURSIVE DecodeEntries(_, _, _, _)
\* n map entries from pos on: [ok, hdr, pos]
DecodeEntries(data, pos, n, hdr) ==
  IF n = 0 THEN [ok |-> TRUE, hdr |-> hdr, pos |-> pos]
  ELSE IF ~StrOk(data, pos) \/ ~StrOk(data, StrEnd(data, pos))
  THEN [ok |-> FALSE, hdr |-> hdr, pos |-> pos]
  ELSE LET vpos == StrEnd(data, pos)
       IN  DecodeEntries(data, StrEnd(data, vpos), n - 1,
                         hdr \cup {<<StrAt(data, pos), StrAt(data, vpos)>>})

\* decoder.Decode(file) into a new(FileObject): [err, file].  When the data
\* is not a whole encoded FileObject the error is set and file keeps the
\* fields decoded before the error.
GobDecode(data) ==
  IF ~StrOk(data, 1) THEN [err |-> TRUE, file |-> ZeroFileObject]
  ELSE
    LET f1 == [ZeroFileObject EXCEPT !.Filename = StrAt(data, 1)]
        p1 == StrEnd(data, 1)
    IN
    IF p1 > Len(data) THEN [err |-> TRUE, file |-> f1]
    ELSE
      LET es == DecodeEntries(data, p1 + 1, data[p1], {})
      IN
      IF ~es.ok \/ es.pos + 1 > Len(data) THEN [err |-> TRUE, file |-> f1]
      ELSE
        LET f2 == [f1 EXCEPT !.Header = es.hdr, !.Size = data[es.pos],
                             !.Modtime = data[es.pos + 1]]
            p3 == es.pos + 2
        IN
        IF ~StrOk(data, p3) \/ StrEnd(data, p3) # Len(data) + 1
        THEN [err |-> TRUE, file |-> f2]
        ELSE [err |-> FALSE, file |-> [f2 EXCEPT !.Contents = StrAt(data, p3)]]

\* ------------------------------------------------------------------ state
VARIABLES
  now,      \* time.Now(), read by NewFileObject's caller and by SubmitUpload
  sha1,     \* the values of sha1.Sum seen so far: input -> 40 hex characters
  s3,       \* the bucket s3Bucket: object key -> object bytes
  uploads,  \* the rows of table Uploads
  nextId,   \* the BIGSERIAL sequence behind Uploads.id
  req,      \* the POST /submit requests, one goroutine each
  get       \* the GET request served last and its responses

vars == <<now, sha1, s3, uploads, nextId, req, get>>

Requests == 1..MaxReq

\* ------------------------------------------------------------- database
\* isValidHex that lets 'g' and 'G' through.
isValidHexOffByOne(s) ==
  \A i \in 1..Len(s) :
    \/ s[i] >= 48 /\ s[i] <= 57
    \/ s[i] >= 97 /\ s[i] <= 103
    \/ s[i] >= 65 /\ s[i] <= 71

\* isValidHex: every rune is 0-9, a-f or A-F.
isValidHex(s) ==
  \A i \in 1..Len(s) :
    \/ s[i] >= 48 /\ s[i] <= 57
    \/ s[i] >= 97 /\ s[i] <= 102
    \/ s[i] >= 65 /\ s[i] <= 70

\* The guard GetUpload returns ErrHashInvalid on.
HashInvalid(hash) ==
  Len(hash) < MinHashLen \/ Len(hash) > MaxHashLen \/ ~isValidHex(hash)

\* A query that matches the whole hash only.
SelectEqual(hash) == {row \in uploads : row.hash = hash}

\* SELECT * FROM Uploads WHERE hash LIKE $1 || '%'
SelectLike(hash) == {row \in uploads : HasPrefix(row.hash, hash)}

\* The UploadModel GetUpload builds from a scanned row.
UploadModelOf(row) ==
  [Id |-> row.id, Hash |-> row.hash, Body |-> row.body,
   FileNames |-> [i \in 1..Len(row.files) |-> Split(row.files[i])[1]],
   FileHashes |-> [i \in 1..Len(row.files) |-> Split(row.files[i])[2]],
   Timestamp |-> row.timestamp]

\* GetUpload(hash): the results it can return, each [upload, err, queried];
\* upload is <<>> for nil.  QueryRow takes whichever matching row the
\* database yields first; dbUp says whether the database answers.
GetUpload(hash, dbUp) ==
  IF HashInvalid(hash)
  THEN {[upload |-> <<>>, err |-> "ErrHashInvalid", queried |-> FALSE]}
  ELSE IF ~dbUp
  THEN {[upload |-> <<>>, err |-> "driver", queried |-> TRUE]}
  ELSE IF SelectLike(hash) = {}
  THEN {[upload |-> <<>>, err |-> "ErrNoRows", queried |-> TRUE]}
  ELSE {[upload |-> <<UploadModelOf(row)>>, err |-> "nil", queried |-> TRUE] :
          row \in SelectLike(hash)}

\* time.Now().UTC().Unix(): whole seconds of the clock reading.
Unix(t) == t \div TicksPerSecond

\* The INSERT on a table whose hash column is not UNIQUE.
ExecNoUnique(hash, dbUp) == IF ~dbUp THEN "error" ELSE "ok"

\* INSERT INTO Uploads(hash, body, files, timestamp): the answer of the
\* database, with hash UNIQUE (initDB).
Exec(hash, dbUp) ==
  IF ~dbUp THEN "error"
  ELSE IF \E row \in uploads : row.hash = hash THEN "23505"
  ELSE "ok"

\* SubmitUpload that writes the submission over the stored row on a
\* unique_violation.
SubmitUploadOverwrite(body, fileNameHashPairs, hash, dbUp) ==
  LET code == Exec(hash, dbUp)
      new == [id |-> nextId, hash |-> hash, body |-> body,
              files |-> fileNameHashPairs, timestamp |-> Unix(now)]
  IN  [hash    |-> IF code = "error" THEN <<>> ELSE hash,
       err     |-> IF code = "error" THEN "driver" ELSE "nil",
       exec    |-> code,
       uploads |-> IF code = "error" THEN uploads
                   ELSE {row \in uploads : row.hash # hash} \cup {new},
       nextId  |-> IF code = "error" THEN nextId ELSE nextId + 1]

\* SubmitUpload that returns ErrConstraintUnique on a unique_violation.
SubmitUploadUniqueErr(body, fileNameHashPairs, hash, dbUp) ==
  LET code == Exec(hash, dbUp)
  IN  [hash    |-> IF code = "ok" THEN hash ELSE <<>>,
       err     |-> IF code = "ok" THEN "nil" ELSE "driver",
       exec    |-> code,
       uploads |-> IF code = "ok"
                   THEN uploads \cup {[id |-> nextId, hash |-> hash, body |-> body,
                                       files |-> fileNameHashPairs,
                                       timestamp |-> Unix(now)]}
                   ELSE uploads,
       nextId  |-> IF code = "error" THEN nextId ELSE nextId + 1]

\* SubmitUpload(body, fileNameHashPairs), given the digest of its buffer:
\* [hash, err, exec, uploads, nextId].
SubmitUpload(body, fileNameHashPairs, hash, dbUp) ==
  LET code == Exec(hash, dbUp)
  IN  [hash    |-> IF code = "error" THEN <<>> ELSE hash,
       err     |-> IF code = "error" THEN "driver" ELSE "nil",
       exec    |-> code,
       uploads |-> IF code = "ok"
                   THEN uploads \cup {[id |-> nextId, hash |-> hash, body |-> body,
                                       files |-> fileNameHashPairs,
                                       timestamp |-> Unix(now)]}
                   ELSE uploads,
       nextId  |-> IF code = "error" THEN nextId ELSE nextId + 1]

\* A buffer that takes the pairs as a set, in an order of its own.
SubmitBufferAnyOrder(body, fileNameHashPairs) ==
  LET pairs == {fileNameHashPairs[i] : i \in DOMAIN fileNameHashPairs}
  IN  body \o Join(CHOOSE order \in Orders(pairs) : TRUE)

\* The buffer SubmitUpload hashes.
SubmitBuffer(body, fileNameHashPairs) == body \o Join(fileNameHashPairs)

\* ------------------------------------------------------------------ sha1
\* fmt.Sprintf("%x", sha1.Sum(b)): the value already seen, or any digest.
Sha1Hex(b) == IF b \in DOMAIN sha1 THEN {sha1[b]} ELSE Digests

Sha1Seen(b, h) == [x \in DOMAIN sha1 \cup {b} |-> IF x = b THEN h ELSE sha1[x]]

\* -------------------------------------------------------------------- S3
UploadOutcomes == {"failed", "nobucket", "unconfirmed", "ok"}

\* No two inputs hashed so far have the same digest.
CollisionFree ==
  \A x, y \in DOMAIN sha1 : x # y => sha1[x] # sha1[y]

\* UploadObject that loses the error of a failed put.
UploadObjectErrLost(key, contents, outcome) ==
  IF outcome \in {"failed", "nobucket"}
  THEN [outKey |-> <<>>, err |-> "nil", s3 |-> s3]
  ELSE [outKey |-> IF outcome = "ok" THEN key ELSE <<>>,
        err    |-> "nil",
        s3     |-> [k \in DOMAIN s3 \cup {key} |-> IF k = key THEN contents ELSE s3[k]]]

\* UploadObject whose put, when the wait fails, has stored nothing.
UploadObjectNotStored(key, contents, outcome) ==
  [outKey |-> IF outcome = "ok" THEN key ELSE <<>>,
   err    |-> IF outcome \in {"failed", "nobucket"} THEN outcome ELSE "nil",
   s3     |-> IF outcome # "ok" THEN s3
              ELSE [k \in DOMAIN s3 \cup {key} |-> IF k = key THEN contents ELSE s3[k]]]

\* UploadObject that returns the error of the failed wait.
UploadObjectWaitErr(key, contents, outcome) ==
  [outKey |-> IF outcome = "ok" THEN key ELSE <<>>,
   err    |-> IF outcome = "ok" THEN "nil" ELSE outcome,
   s3     |-> IF outcome \in {"failed", "nobucket"} THEN s3
              ELSE [k \in DOMAIN s3 \cup {key} |-> IF k = key THEN contents ELSE s3[k]]]

\* S3Actions.UploadObject(ctx, bucket, key, contents): [outKey, err, s3].
\* outcome is what the service does: the put fails, the bucket is missing,
\* the put succeeds and the wait for the object fails, or both succeed.
UploadObject(key, contents, outcome) ==
  IF outcome \in {"failed", "nobucket"}
  THEN [outKey |-> <<>>, err |-> outcome, s3 |-> s3]
  ELSE [outKey |-> IF outcome = "ok" THEN key ELSE <<>>,
        err    |-> "nil",
        s3     |-> [k \in DOMAIN s3 \cup {key} |-> IF k = key THEN contents ELSE s3[k]]]

\* S3Actions.DownloadLargeObject(bucket, objectKey): [data, err].
DownloadLargeObject(objectKey, s3Up) ==
  IF s3Up /\ objectKey \in DOMAIN s3
  THEN [data |-> s3[objectKey], err |-> "nil"]
  ELSE [data |-> <<>>, err |-> "download"]

\* -------------------------------------------------------------- responses
\* respondError(c, code, err): c.JSON(code, {"message": ...})
respondError(code) == [status |-> code, page |-> "error"]

\* route404: c.HTML(http.StatusOK, "404.html", ...)
route404 == [status |-> StatusOK, page |-> "404.html"]

\* ---------------------------------------------------------- POST /submit
Idle ==
  [pc |-> "idle", body |-> <<>>, files |-> <<>>, i |-> 1, pairs |-> <<>>,
   puts |-> <<>>, putFailed |-> FALSE, hash |-> <<>>, exec |-> "none",
   resp |-> <<>>, inflight |-> {}]

InFlight(q) == req[q].pc \in {"loop", "insert"}

RECURSIVE Uploads(_)
\* The attachments of requests 1..n: a run carries at most MaxUploads.
Uploads(n) == IF n = 0 THEN 0 ELSE Len(req[n].files) + Uploads(n - 1)

\* The handler is entered with the parsed form: body and fileHeaders;
\* fileNameHashPairs := make([]string, len(fileHeaders)).
SubmitBegin(r, body, fileHeaders) ==
  /\ req[r].pc = "idle"
  /\ \A q \in Requests : q < r => req[q].pc # "idle"
  /\ Len(fileHeaders) + Uploads(r - 1) <= MaxUploads
  /\ req' = [req EXCEPT ![r] =
       [Idle EXCEPT !.pc = IF fileHeaders = <<>> THEN "insert" ELSE "loop",
                    !.body = body, !.files = fileHeaders,
                    !.pairs = [j \in 1..Len(fileHeaders) |-> <<>>],
                    !.puts = [j \in 1..Len(fileHeaders) |-> "none"],
                    !.inflight = {q \in Requests : InFlight(q)}]]
  /\ UNCHANGED <<now, sha1, s3, uploads, nextId, get>>

\* The handler is entered while no other POST /submit is being served.
SubmitBeginSerial(r, body, fileHeaders) ==
  /\ req[r].pc = "idle"
  /\ \A q \in Requests : q < r => req[q].pc # "idle"
  /\ \A q \in Requests : ~InFlight(q)
  /\ req' = [req EXCEPT ![r] =
       [Idle EXCEPT !.pc = IF fileHeaders = <<>> THEN "insert" ELSE "loop",
                    !.body = body, !.files = fileHeaders,
                    !.pairs = [j \in 1..Len(fileHeaders) |-> <<>>],
                    !.puts = [j \in 1..Len(fileHeaders) |-> "none"]]]
  /\ UNCHANGED <<now, sha1, s3, uploads, nextId, get>>

\* fmt.Sprintf("%s/%s", strings.TrimSpace(fileHeader.Filename), hash)
PairString(filename, hash) == TrimSpace(filename) \o Slash \o hash

\* One turn of the loop over fileHeaders: open and read the file, encode
\* it, hash the gob, upload it under the hash, record the pair.  puts[i]
\* keeps what the service did with the put of attachment i.
SubmitFile(r) ==
  /\ req[r].pc = "loop"
  /\ LET i == req[r].i
         fileHeader == req[r].files[i]
     IN  \/ \* NewFileObject fails to open or read the file
            /\ req' = [req EXCEPT ![r].pc = "done",
                         ![r].resp = Append(@, respondError(StatusInternalServerError))]
            /\ UNCHANGED <<sha1, s3>>
         \/ \E order \in Orders(fileHeader.Header) :
              LET buffer == GobEncode(NewFileObject(fileHeader, now), order)
              IN  \E hash \in Sha1Hex(buffer), outcome \in UploadOutcomes :
                    LET up == UploadObject(hash, buffer, outcome)
                    IN  /\ sha1' = Sha1Seen(buffer, hash)
                        /\ s3' = up.s3
                        /\ IF up.err # "nil"
                           THEN req' = [req EXCEPT ![r].pc = "done",
                                   ![r].puts[i] = outcome,
                                   ![r].putFailed = outcome \in {"failed", "nobucket"},
                                   ![r].resp = Append(@, respondError(StatusInternalServerError))]
                           ELSE req' = [req EXCEPT
                                   ![r].puts[i] = outcome,
                                   ![r].putFailed = outcome \in {"failed", "nobucket"},
                                   ![r].pairs[i] = PairString(fileHeader.Filename, hash),
                                   ![r].i = i + 1,
                                   ![r].pc = IF i = Len(req[r].files) THEN "insert" ELSE "loop"]
  /\ UNCHANGED <<now, uploads, nextId, get>>

\* The response after SubmitUpload returned res.
SubmitResponse(res) ==
  IF res.err # "nil" THEN respondError(StatusConflict)
  ELSE [status |-> StatusOK, page |-> "json", id |-> Short(res.hash)]

\* hash, err := SubmitUpload(body, fileNameHashPairs) and the response.
SubmitStore(r) ==
  /\ req[r].pc = "insert"
  /\ \E dbUp \in BOOLEAN :
       LET buffer == SubmitBuffer(req[r].body, req[r].pairs)
       IN  \E hash \in Sha1Hex(buffer) :
             LET res == SubmitUpload(req[r].body, req[r].pairs, hash, dbUp)
             IN  /\ sha1' = Sha1Seen(buffer, hash)
                 /\ uploads' = res.uploads
                 /\ nextId' = res.nextId
                 /\ req' = [req EXCEPT ![r].pc = "done", ![r].hash = hash,
                              ![r].exec = res.exec,
                              ![r].resp = Append(@, SubmitResponse(res))]
  /\ UNCHANGED <<now, s3, get>>

\* ------------------------------------------------------------ GET /:hash
\* The hash parameters tried: prefixes of digests of 9, 10, 25, 40 and 41
\* characters, upper case, a non-hex one, and one that matches no digest.
HashParams ==
  {SubSeq(D1, 1, 9), Short(D1), D2, SubSeq(D3, 1, 25), Append(D1, 48),
   Rep(66, 10), <<103>> \o Rep(97, 9), <<48, 49, 50, 51, 52, 53, 54, 55, 56, 57>>}

\* GET /:hash without the isValidHex test before GetUpload.
GetHashNoPrecheck(param, dbUp) ==
  LET hash == ToLower(param)
  IN  {[resp |-> IF g.err # "nil"
                 THEN IF g.err = "ErrHashInvalid"
                      THEN <<respondError(StatusBadRequest)>>
                      ELSE <<route404>>
                 ELSE <<[status |-> StatusOK, page |-> "submission.html",
                         upload |-> g.upload[1]]>>,
        queried |-> g.queried] : g \in GetUpload(hash, dbUp)}

\* GET /:hash with parameter param: the responses it can end with, each
\* [resp, queried].
GetHash(param, dbUp) ==
  LET hash == ToLower(param)
  IN  IF ~isValidHex(hash)
      THEN {[resp |-> <<route404>>, queried |-> FALSE]}
      ELSE {[resp |-> IF g.err # "nil"
                      THEN IF g.err = "ErrHashInvalid"
                           THEN <<respondError(StatusBadRequest)>>
                           ELSE <<route404>>
                      ELSE <<[status |-> StatusOK, page |-> "submission.html",
                              upload |-> g.upload[1]]>>,
             queried |-> g.queried] : g \in GetUpload(hash, dbUp)}

Resolve ==
  /\ \E param \in HashParams, dbUp \in BOOLEAN :
       \E out \in GetHash(param, dbUp) :
         get' = [route |-> "hash", arg |-> param, resp |-> out.resp,
                 queried |-> out.queried]
  /\ UNCHANGED <<now, sha1, s3, uploads, nextId, req>>

\* ---------------------------------------------------------- GET /download
DownloadArgs == {<<>>} \cup Digests

\* GET /download?hash=arg: the responses written, in order.
GetDownload(arg, s3Up) ==
  LET first == IF arg = <<>> THEN <<respondError(StatusBadRequest)>> ELSE <<>>
      d == DownloadLargeObject(arg, s3Up)
      file == GobDecode(d.data).file
  IN  IF d.err # "nil" \/ Len(d.data) = 0
      THEN first \o <<route404>>
      ELSE first \o <<[status |-> StatusOK, page |-> "attachment",
                       filename |-> file.Filename, modtime |-> file.Modtime,
                       contents |-> file.Contents]>>

Download ==
  /\ \E arg \in DownloadArgs, s3Up \in BOOLEAN :
       get' = [route |-> "download", arg |-> arg, resp |-> GetDownload(arg, s3Up),
               queried |-> TRUE]
  /\ UNCHANGED <<now, sha1, s3, uploads, nextId, req>>

\* Objects of the bucket s3Bucket that no request of this server wrote: an
\* empty object, bytes that are no encoded FileObject, and an encoded
\* FileObject cut off after its Filename.
ForeignObjects == {<<>>, <<2, 97>>, <<1, 97, 0>>}

\* Another writer of the bucket puts an object under a free key.
PutForeign ==
  /\ \E key \in Digests \ DOMAIN s3, data \in ForeignObjects :
       s3' = [k \in DOMAIN s3 \cup {key} |-> IF k = key THEN data ELSE s3[k]]
  /\ UNCHANGED <<now, sha1, uploads, nextId, req, get>>

\* ------------------------------------------------------------------ clock
Tick ==
  /\ now < MaxTime
  /\ now' = now + 1
  /\ UNCHANGED <<sha1, s3, uploads, nextId, req, get>>

\* -------------------------------------------------------------- the system
Init ==
  /\ now = 1
  /\ sha1 = <<>>
  /\ s3 = <<>>
  /\ uploads = {}
  /\ nextId = 1
  /\ req = [r \in Requests |-> Idle]
  /\ get = [route |-> "none", arg |-> <<>>, resp |-> <<>>, queried |-> FALSE]

Submit(bodies, fileLists) ==
  \E r \in Requests :
    \/ \E body \in bodies, fileHeaders \in fileLists : SubmitBegin(r, body, fileHeaders)
    \/ SubmitFile(r)
    \/ SubmitStore(r)

\* Submissions without attachments.
SubmitText(bodies) ==
  \E r \in Requests :
    \/ \E body \in bodies : SubmitBegin(r, body, <<>>)
    \/ SubmitStore(r)

\* Submissions served one after another.
SubmitSerial(bodies, fileLists) ==
  \E r \in Requests :
    \/ \E body \in bodies, fileHeaders \in fileLists : SubmitBeginSerial(r, body, fileHeaders)
    \/ SubmitFile(r)
    \/ SubmitStore(r)

\* The submissions: every body, with up to MaxUploads attachments, while
\* the clock runs.
Next == Submit(Bodies, SeqsUpTo({FileA}, MaxUploads)) \/ Tick

Spec == Init /\ [][Next]_vars

\* Submissions without attachments, while the clock runs.
NextText == SubmitText({<<>>, <<32>>, <<120>>}) \/ Tick

SpecText == Init /\ [][NextText]_vars

\* Submissions of one text with up to MaxUploads attachments.
NextUpload == Submit({<<120>>}, SeqsUpTo({FileA}, MaxUploads))

SpecUpload == Init /\ [][NextUpload]_vars

\* Submissions without attachments, and GET /:hash.
NextResolve == SubmitText({<<>>, <<120>>}) \/ Resolve

SpecResolve == Init /\ [][NextResolve]_vars

\* Submissions of one text with one attachment, and the two GET routes.
NextGet == Submit({<<120>>}, {<<FileA>>}) \/ Resolve \/ Download

SpecGet == Init /\ [][NextGet]_vars

\* Submissions of one text with one attachment and GET /download, on a
\* bucket that has other writers.
NextFetch == Submit({<<120>>}, {<<FileA>>}) \/ PutForeign \/ Download

SpecFetch == Init /\ [][NextFetch]_vars

\* Submissions of one text with the file a, or with the files a and b, and
\* GET /download.
NextFiles == Submit({<<120>>}, {<<FileA>>, <<FileA, FileB>>}) \/ Download

SpecFiles == Init /\ [][NextFiles]_vars

\* Submissions of one text with the files a and c, in either order, one
\* after another.
NextOrder == SubmitSerial({<<120>>}, {<<FileA, FileC>>, <<FileC, FileA>>})

SpecOrder == Init /\ [][NextOrder]_vars

\* Submissions of one text with the file b, whose header has two keys.
NextEncode == Submit({<<120>>}, {<<FileB>>})

SpecEncode == Init /\ [][NextEncode]_vars

\* Submissions of one text with one attachment, one after another, and
\* the two GET routes.
NextRecords == SubmitSerial({<<120>>}, {<<FileA>>}) \/ Resolve \/ Download

SpecRecords == Init /\ [][NextRecords]_vars

\* ================================================================ claims
Done(r) == req[r].pc = "done"

\* The request ended with the success response of POST /submit.
Succeeded(r) ==
  /\ Done(r)
  /\ Len(req[r].resp) = 1
  /\ req[r].resp[1].status = StatusOK
  /\ req[r].resp[1].page = "json"

\* The rows that hold the content (body, fileHeaders): the body, and for
\* each attachment its trimmed filename with a key whose object decodes to
\* the attachment's bytes.
ContentRows(body, fileHeaders) ==
  {row \in uploads :
     /\ row.body = body
     /\ Len(row.files) = Len(fileHeaders)
     /\ \A i \in 1..Len(fileHeaders) :
          LET m == UploadModelOf(row)
          IN  /\ m.FileNames[i] = TrimSpace(fileHeaders[i].Filename)
              /\ m.FileHashes[i] \in DOMAIN s3
              /\ GobDecode(s3[m.FileHashes[i]]).file.Contents = fileHeaders[i].Contents}

\* C1: two successful submissions of the same body and the same list of
\* attachments return the same short hash and leave exactly one row for
\* that content.
IdempotentSubmission ==
  \A r1, r2 \in Requests :
    (/\ r1 # r2
     /\ Succeeded(r1) /\ Succeeded(r2)
     /\ req[r1].body = req[r2].body
     /\ req[r1].files = req[r2].files)
    => /\ req[r1].resp[1].id = req[r2].resp[1].id
       /\ Cardinality(ContentRows(req[r1].body, req[r1].files)) = 1

\* C2: no two rows of Uploads have the same hash; a submission whose hash
\* is already stored adds no row, and is answered with the short form of
\* the stored hash and no error.
HashUnique ==
  /\ \A row1, row2 \in uploads : row1.hash = row2.hash => row1 = row2
  /\ Cardinality(uploads) = Cardinality({r \in Requests : req[r].exec = "ok"})
  /\ \A r \in Requests :
       req[r].exec = "23505"
       => /\ \E row \in uploads : row.hash = req[r].hash
          /\ req[r].resp = <<[status |-> StatusOK, page |-> "json",
                              id |-> Short(req[r].hash)]>>

\* Two submissions were stored under one hash: the second met the
\* uniqueness violation.
HashUniqueWitness ==
  \E r1, r2 \in Requests :
    /\ req[r1].exec = "ok" /\ req[r2].exec = "23505"
    /\ req[r1].hash = req[r2].hash
    /\ Done(r2)

\* The object key recorded in a filename/hash pair string.
KeyOf(pair) == SubSeq(pair, Len(pair) - MaxHashLen + 1, Len(pair))

\* C3: when the put of attachment k fails, the request ends with an
\* error, SubmitUpload is never called for it (every row stems from a
\* submission the database accepted), attachments k+1..N are never
\* uploaded, and the objects of attachments 1..k-1 are in the bucket.
PartialFailureNoPersist ==
  /\ Cardinality(uploads) = Cardinality({r \in Requests : req[r].exec = "ok"})
  /\ \A r \in Requests :
       req[r].putFailed
       => LET k == req[r].i
          IN  /\ Done(r)
              /\ req[r].resp = <<respondError(StatusInternalServerError)>>
              /\ req[r].exec = "none"
              /\ \A j \in 1..Len(req[r].files) :
                   IF j < k
                   THEN /\ req[r].pairs[j] # <<>>
                        /\ KeyOf(req[r].pairs[j]) \in DOMAIN s3
                   ELSE req[r].pairs[j] = <<>>

\* The put of the second of two attachments failed after the first was
\* stored.
PartialFailureWitness ==
  \E r \in Requests :
    /\ req[r].putFailed
    /\ req[r].i = 2
    /\ Len(req[r].files) = 2
    /\ s3 # <<>>

\* C4: a submission with a blank body and no attachment ends with a
\* 400 response and SubmitUpload is never called for it.
EmptySubmissionRejected ==
  \A r \in Requests :
    (Done(r) /\ TrimSpace(req[r].body) = <<>> /\ req[r].files = <<>>)
    => /\ req[r].resp = <<respondError(StatusBadRequest)>>
       /\ req[r].exec = "none"

\* The answer of GetUpload that holds row.
Found(row) == [upload |-> <<UploadModelOf(row)>>, err |-> "nil", queried |-> TRUE]

\* C5 as stated: for every stored hash h and every n in 10..40, GetUpload
\* of the first n characters of h returns the row whose hash is h.
PrefixResolution ==
  \A row \in uploads : \A n \in MinHashLen..MaxHashLen :
    GetUpload(SubSeq(row.hash, 1, n), TRUE) = {Found(row)}

\* C5 amended: GetUpload of the first n characters of a stored hash h, the
\* database answering, returns a stored row whose hash starts with those
\* characters; it is the row whose hash is h when no other stored hash
\* starts with them, and so whenever n = 40.
PrefixResolutionUnambiguous ==
  \A row \in uploads : \A n \in MinHashLen..MaxHashLen :
    LET prefix == SubSeq(row.hash, 1, n)
        results == GetUpload(prefix, TRUE)
    IN  /\ \A g \in results :
             /\ g.err = "nil"
             /\ \E other \in uploads :
                  HasPrefix(other.hash, prefix) /\ g = Found(other)
        /\ (\A other \in uploads : HasPrefix(other.hash, prefix) => other = row)
           => results = {Found(row)}
        /\ n = MaxHashLen => results = {Found(row)}

\* GET /:hash was served the submission stored under D3 for its first 10
\* characters, with another row stored.
PrefixResolutionWitness ==
  /\ get.route = "hash"
  /\ get.arg = Rep(66, 10)
  /\ get.resp[1].page = "submission.html"
  /\ get.resp[1].upload.Hash = D3
  /\ \E row \in uploads : row.hash # D3

\* The code points of the hexadecimal digits.
HexDigits == (48..57) \cup (97..102) \cup (65..70)

\* The strings GetUpload is probed with: the parameters of GET /:hash, the
\* first 9, 10 and 40 characters of every digest, and 41 characters.
Probes ==
  HashParams
    \cup {SubSeq(d, 1, n) : d \in Digests, n \in {MinHashLen - 1, MinHashLen, MaxHashLen}}
    \cup {Append(d, 102) : d \in Digests}

Malformed(s) ==
  \/ \E i \in 1..Len(s) : s[i] \notin HexDigits
  \/ Len(s) < MinHashLen
  \/ Len(s) > MaxHashLen

\* C6: GetUpload returns ErrHashInvalid exactly for a string with a
\* non-hex character or a length outside [10, 40], and then without a
\* query; for a well-formed string no stored hash starts with it returns
\* another error: sql.ErrNoRows when the database answers.
ValidationBoundaries ==
  \A s \in Probes, dbUp \in BOOLEAN : \A g \in GetUpload(s, dbUp) :
    /\ g.err = "ErrHashInvalid" <=> Malformed(s)
    /\ g.err = "ErrHashInvalid" => ~g.queried
    /\ (~Malformed(s) /\ \A row \in uploads : ~HasPrefix(row.hash, s))
       => /\ g.err \notin {"nil", "ErrHashInvalid"}
          /\ g.queried
          /\ dbUp => g.err = "ErrNoRows"

\* GET /:hash was answered 400 for 9 hex characters without a query, with
\* rows stored.
ValidationBoundariesWitness ==
  /\ get.route = "hash"
  /\ get.arg = SubSeq(D1, 1, 9)
  /\ get.resp = <<respondError(StatusBadRequest)>>
  /\ ~get.queried
  /\ uploads # {}

\* C7 as stated: a GET /:hash whose hash has a non-hex character or a
\* length outside [10, 40] ends with the 400 response, and one whose hash is
\* well-formed and matches no row ends with the not-found page.
FailureKindsDistinguished ==
  \A param \in HashParams, dbUp \in BOOLEAN : \A out \in GetHash(param, dbUp) :
    /\ Malformed(param) => out.resp = <<respondError(StatusBadRequest)>>
    /\ (~Malformed(param) /\ \A row \in uploads : ~HasPrefix(row.hash, ToLower(param)))
       => out.resp = <<route404>>

\* C7 amended: a GET /:hash whose hash is all hex digits and has a length
\* outside [10, 40] ends with the 400 response; one whose hash has a
\* non-hex character, or is well-formed and matches no row, ends with the
\* not-found page of route404.
FailureKindsByRoute ==
  \A param \in HashParams, dbUp \in BOOLEAN : \A out \in GetHash(param, dbUp) :
    LET nonHex == \E i \in 1..Len(param) : param[i] \notin HexDigits
    IN  /\ (Malformed(param) /\ ~nonHex) => out.resp = <<respondError(StatusBadRequest)>>
        /\ nonHex => out.resp = <<route404>>
        /\ (~Malformed(param) /\ \A row \in uploads : ~HasPrefix(row.hash, ToLower(param)))
           => out.resp = <<route404>>

\* GET /:hash was served the not-found page for ten characters of which
\* one is no hex digit.
FailureKindsWitness ==
  /\ get.route = "hash"
  /\ get.arg = <<103>> \o Rep(97, 9)
  /\ get.resp = <<route404>>
  /\ uploads # {}

\* No two inputs hashed so far have the same digest, and no two digests
\* seen so far agree on their first 10 characters.
DigestsApart ==
  \A x, y \in DOMAIN sha1 : x # y => Short(sha1[x]) # Short(sha1[y])

\* C8: after a successful submission answered with id, id is the first 10
\* characters of a stored 40-character hash and GetUpload(id) returns the
\* submitted body, and the submitted filenames in order, each with the key
\* its attachment was uploaded under.  Stated for the runs in which sha1
\* has met no collision, not even on the first 10 characters.
SubmitThenResolve ==
  DigestsApart =>
    \A r \in Requests :
      Succeeded(r)
      => LET id == req[r].resp[1].id
         IN  /\ \E row \in uploads : Len(row.hash) = MaxHashLen /\ Short(row.hash) = id
             /\ \A g \in GetUpload(id, TRUE) :
                  /\ g.err = "nil"
                  /\ g.upload[1].Body = req[r].body
                  /\ g.upload[1].FileNames =
                       [i \in 1..Len(req[r].files) |-> TrimSpace(req[r].files[i].Filename)]
                  /\ g.upload[1].FileHashes =
                       [i \in 1..Len(req[r].files) |-> KeyOf(req[r].pairs[i])]

\* The submissions that computed hash and whose INSERT the database
\* answered.
Stored(hash) ==
  {r \in Requests : Done(r) /\ req[r].hash = hash /\ req[r].exec \in {"ok", "23505"}}

\* C9: of the submissions that compute one hash and whose INSERT the
\* database answers, however they interleave, exactly one row with that
\* hash exists once any of them has ended, and each is answered with the
\* short form of that hash and no error.
ConcurrentDedup ==
  \A hash \in Digests :
    Stored(hash) # {}
    => /\ Cardinality({row \in uploads : row.hash = hash}) = 1
       /\ \A r \in Stored(hash) :
            req[r].resp = <<[status |-> StatusOK, page |-> "json", id |-> Short(hash)]>>

\* Two submissions in flight at the same time ended with the same hash.
ConcurrentDedupWitness ==
  \E hash \in Digests : \E r1, r2 \in Stored(hash) :
    /\ r1 # r2
    /\ r1 \in req[r2].inflight
    /\ req[r2].exec = "ok"
    /\ req[r1].exec = "23505"

\* The step serves a GET request: it writes the responses of one.
GetServed == get' # get

\* C10: a stored row stays stored, with its hash, body, files and
\* timestamp, through every step; GET /:hash and GET /download change
\* neither table Uploads nor the bucket.
RecordsImmutable ==
  [][/\ uploads \subseteq uploads'
     /\ GetServed => UNCHANGED <<uploads, nextId, s3>>]_vars

\* A submission met its own stored row again, and an attachment of a
\* stored row was served.
RecordsImmutableWitness ==
  /\ \E r \in Requests : Done(r) /\ req[r].exec = "23505"
  /\ get.route = "download"
  /\ get.resp[1].page = "attachment"
  /\ \E row \in uploads : \E i \in 1..Len(row.files) : KeyOf(row.files[i]) = get.arg

\* C11: UploadObject returns an error exactly when the put itself failed,
\* a missing bucket included; a put that failed ends the request with the
\* 500 response at that attachment; a put that succeeded, its wait for the
\* object failed or not, leaves the object in the bucket and its pair
\* recorded, the loop goes on to the next attachment, and a request whose
\* puts all succeeded and that has ended has called SubmitUpload.
PutOutcome ==
  /\ \A key \in Digests, outcome \in UploadOutcomes :
       UploadObject(key, <<>>, outcome).err # "nil" <=> outcome \in {"failed", "nobucket"}
  /\ \A r \in Requests :
       /\ \A j \in 1..Len(req[r].files) :
            /\ req[r].puts[j] \in {"failed", "nobucket"}
               => /\ Done(r)
                  /\ req[r].i = j
                  /\ req[r].resp = <<respondError(StatusInternalServerError)>>
                  /\ req[r].exec = "none"
            /\ req[r].puts[j] \in {"unconfirmed", "ok"}
               => /\ req[r].i > j
                  /\ req[r].pairs[j] # <<>>
                  /\ KeyOf(req[r].pairs[j]) \in DOMAIN s3
       /\ (/\ Done(r)
           /\ \A j \in 1..Len(req[r].files) : req[r].puts[j] \in {"unconfirmed", "ok"})
          => req[r].exec # "none"

\* A submission of two attachments was stored although the wait for its
\* first object failed.
PutOutcomeWitness ==
  \E r \in Requests :
    /\ Succeeded(r)
    /\ req[r].exec = "ok"
    /\ Len(req[r].files) = 2
    /\ req[r].puts = <<"unconfirmed", "ok">>

\* C12: a GET /download of a key whose fetch fails, whose object is absent
\* or empty, or whose bytes do not decode as a FileObject ends with the
\* not-found page, and an attachment is served only from bytes that
\* decoded.
FetchFailureNotFound ==
  \A arg \in Digests, s3Up \in BOOLEAN :
    LET d == DownloadLargeObject(arg, s3Up)
        out == GetDownload(arg, s3Up)
    IN  /\ (d.err # "nil" \/ Len(d.data) = 0 \/ GobDecode(d.data).err)
           => out = <<route404>>
        /\ (\E i \in 1..Len(out) : out[i].page = "attachment")
           => d.err = "nil" /\ ~GobDecode(d.data).err

\* C13: no POST /submit ends with the 409 response; one whose hash is
\* already stored ends with the success response, and one whose INSERT the
\* database fails ends with the 500 response.
ConflictNeverOccurs ==
  \A r \in Requests :
    Done(r)
    => /\ \A i \in 1..Len(req[r].resp) : req[r].resp[i].status # StatusConflict
       /\ req[r].exec = "23505" => Succeeded(r)
       /\ req[r].exec = "error"
          => req[r].resp = <<respondError(StatusInternalServerError)>>

\* No two encoded FileObjects hashed so far have the same digest: no two
\* objects were uploaded under one key.
KeysApart ==
  \A x, y \in DOMAIN sha1 :
    (x # y /\ ~GobDecode(x).err /\ ~GobDecode(y).err) => sha1[x] # sha1[y]

\* C14: in every state after a successful submission, and as long as sha1
\* has given no two encoded FileObjects the same key, a GET /download of
\* the key recorded in the pair of each of its attachments, the bucket
\* answering, serves one attachment whose filename and contents are those
\* submitted, and the object under the key decodes without error to the
\* FileObject that was encoded.
FetchAfterSubmit ==
  KeysApart =>
    \A r \in Requests :
      Succeeded(r)
      => \A j \in 1..Len(req[r].files) :
           LET key == KeyOf(req[r].pairs[j])
               out == GetDownload(key, TRUE)
           IN  /\ req[r].exec = "ok"
                  => \E row \in uploads : row.files = req[r].pairs
               /\ Len(out) = 1
               /\ out[1].status = StatusOK
               /\ out[1].page = "attachment"
               /\ out[1].filename = req[r].files[j].Filename
               /\ out[1].contents = req[r].files[j].Contents
               /\ ~GobDecode(s3[key]).err
               /\ \E t \in 1..now :
                    GobDecode(s3[key]).file = NewFileObject(req[r].files[j], t)

\* The attachment b of a stored submission of a and b was served under
\* the key of its pair.
FetchAfterSubmitWitness ==
  /\ KeysApart
  /\ \E r \in Requests :
       /\ Succeeded(r)
       /\ req[r].exec = "ok"
       /\ req[r].files = <<FileA, FileB>>
       /\ get.route = "download"
       /\ get.arg = KeyOf(req[r].pairs[2])
       /\ Len(get.resp) = 1
       /\ get.resp[1].page = "attachment"
       /\ get.resp[1].filename = FileB.Filename

\* The request called SubmitUpload and the database answered: its
\* submission hash stands in req[r].hash.
Hashed(r) == Done(r) /\ req[r].exec \in {"ok", "23505"}

\* C15: two submissions of the same body with the two attachments A and B
\* of different filenames, one as [A, B] and the other as [B, A], hash
\* different buffers, also when A and B have the same contents: their
\* submission hashes differ unless sha1 collides on the two buffers.
OrderSensitive ==
  \A r1, r2 \in Requests :
    (/\ Hashed(r1) /\ Hashed(r2)
     /\ req[r1].body = req[r2].body
     /\ Len(req[r1].files) = 2
     /\ req[r1].files[1].Filename # req[r1].files[2].Filename
     /\ req[r2].files = <<req[r1].files[2], req[r1].files[1]>>)
    => LET buffer1 == SubmitBuffer(req[r1].body, req[r1].pairs)
           buffer2 == SubmitBuffer(req[r2].body, req[r2].pairs)
       IN  /\ buffer1 # buffer2
           /\ req[r1].hash = sha1[buffer1]
           /\ req[r2].hash = sha1[buffer2]
           /\ sha1[buffer1] # sha1[buffer2] => req[r1].hash # req[r2].hash

\* The files a and c, of the same contents, were submitted as [a, c] and
\* as [c, a], and both submissions were stored, under two hashes.
OrderSensitiveWitness ==
  \E r1, r2 \in Requests :
    /\ Succeeded(r1) /\ Succeeded(r2)
    /\ req[r1].exec = "ok" /\ req[r2].exec = "ok"
    /\ req[r1].files = <<FileA, FileC>>
    /\ req[r2].files = <<FileC, FileA>>
    /\ FileA.Contents = FileC.Contents
    /\ req[r1].hash # req[r2].hash

\* C16: two encodings of one FileObject value (filename, header, size,
\* modification time and contents) are the same bytes and so get the same
\* key: no two objects of the bucket under different keys decode to the
\* same FileObject.
EncodingDeterministic ==
  \A key1, key2 \in DOMAIN s3 :
    LET d1 == GobDecode(s3[key1])
        d2 == GobDecode(s3[key2])
    IN  (~d1.err /\ ~d2.err /\ d1.file = d2.file)
        => s3[key1] = s3[key2] /\ key1 = key2

\* C17: as long as sha1 has met no collision, two submissions get the
\* same submission hash only if they have the same body and the same
\* filename/key pairs in the same order, and a submission is never
\* answered with the hash of a stored row whose body or pairs are not
\* its own.
HashUniqueToContent ==
  CollisionFree =>
    /\ \A r1, r2 \in Requests :
         (Hashed(r1) /\ Hashed(r2) /\ req[r1].hash = req[r2].hash)
         => req[r1].body = req[r2].body /\ req[r1].pairs = req[r2].pairs
    /\ \A r \in Requests : \A row \in uploads :
         (Succeeded(r) /\ row.hash = req[r].hash)
         => row.body = req[r].body /\ row.files = req[r].pairs

\* C18: in every state, every object key in the files of a stored row, as
\* written in its pair and as GetUpload splits it off, is the key of an
\* object in the bucket.
ReferentialIntegrity ==
  \A row \in uploads : \A i \in 1..Len(row.files) :
    /\ KeyOf(row.files[i]) \in DOMAIN s3
    /\ UploadModelOf(row).FileHashes[i] = KeyOf(row.files[i])
    /\ ~GobDecode(s3[KeyOf(row.files[i])]).err

\* A row with two attachments is stored, the wait for one of its objects
\* having failed.
ReferentialIntegrityWitness ==
  \E r \in Requests : \E row \in uploads :
    /\ req[r].exec = "ok"
    /\ row.hash = req[r].hash
    /\ Len(row.files) = 2
    /\ row.files = req[r].pairs
    /\ req[r].puts[2] = "unconfirmed"

\* C19: every POST /submit that has ended and every GET /download has
\* written exactly one response; a GET /download without a hash has written
\* the 400 response only and has fetched nothing from the bucket.
SingleResponse ==
  /\ \A r \in Requests : Done(r) => Len(req[r].resp) = 1
  /\ get.route = "download"
     => /\ Len(get.resp) = 1
        /\ get.arg = <<>>
           => get.resp = <<respondError(StatusBadRequest)>> /\ ~get.queried

====
